---- MODULE Spec2Model ----
(***************************************************************************)
(* Model of src/app.py, the Streamlit dashboard "Criminalitat a Suissa".   *)
(* One execution of the script is a run through the program counter pc:    *)
(* the two memoized loaders, the sidebar widgets, the filter, and then the *)
(* sections in source order.  A user interaction re-executes the script    *)
(* in the same process (Rerun).                                            *)
(*                                                                         *)
(* A DataFrame is a record [cols, rows]; rows is a set of records, one per *)
(* DataFrame row.  Row order is not modelled: no operation modelled here   *)
(* reads it (group-by results are keyed, sums and means are symmetric).    *)
(* A float is a record [k, n, d]: the exact rational n/d when k = "num",   *)
(* NaN when k = "nan", an infinity when k = "inf"; k = "ZeroDivisionError" *)
(* stands for a division that raised instead of returning a float.        *)
(***************************************************************************)
EXTENDS Integers, Sequences, FiniteSets, TLC

\* ---------------------------------------------------------------- bounds
MaxRows == 2
MaxReads == 2
MaxFrags == 2

\* ------------------------------------------------------- the data domain
\* Zuric has rows of both years, Bern of the later year only
CantonYears == {<<"Zuric", 2021>>, <<"Zuric", 2022>>, <<"Bern", 2022>>}
Cantons == {cy[1] : cy \in CantonYears}
Counts == {0, 1}
Vol == <<"V", "o", "l">>
Meurtre == <<"M", "e", "u", "r", "t", "r", "e">>
Offences == {Vol, Meurtre}
TotalDeCasos == "Total de casos"
Resolts == "Resolts"
Levels == {TotalDeCasos, Resolts, "No resolts"}
Rates == {3}
ResolvedPcts == {50}
Tots == "Tots"
SourceCols == {"Any", "Canto_norm", "Tipus_de_Delicte", "Nivell_de_Resolucio",
               "Nombre_de_Delictes", "Taxa_Criminalitat_per_1000",
               "Percentatge_Casos_Resolts"}

RowsOf(cantonyears, offences, levels, counts) ==
  {[Any |-> cy[2], Canto_norm |-> cy[1], Tipus_de_Delicte |-> o,
    Nivell_de_Resolucio |-> l, Nombre_de_Delictes |-> n,
    Taxa_Criminalitat_per_1000 |-> t, Percentatge_Casos_Resolts |-> p] :
   cy \in cantonyears, o \in offences, l \in levels, n \in counts,
   t \in Rates, p \in ResolvedPcts}

RowPool == RowsOf(CantonYears, Offences, Levels, Counts)

KeyOf(r) ==
  <<r.Canto_norm, r.Any, r.Tipus_de_Delicte, r.Nivell_de_Resolucio>>

\* the tables of at most n rows of pool, one row per key
RECURSIVE TablesUpTo(_, _)
TablesUpTo(pool, n) ==
  IF n = 0 THEN {{}}
  ELSE LET T == TablesUpTo(pool, n - 1)
       IN  T \cup {p[1] \cup {p[2]} : p \in
                     {p \in T \X pool :
                        \A q \in p[1] : KeyOf(q) # KeyOf(p[2])}}

Tables == TablesUpTo(RowPool, MaxRows)
GeoFiles == {Cantons}

\* the file contents of the specification of the caches
CacheTables == TablesUpTo(RowsOf(CantonYears, Offences, {Resolts}, Counts), 1)
CacheGeoFiles == {Cantons, {"Zuric"}}

\* ---------------------------------------------------------------- floats
NaN == [k |-> "nan", n |-> 0, d |-> 1]
Inf == [k |-> "inf", n |-> 1, d |-> 1]
Num(n, d) == [k |-> "num", n |-> n, d |-> d]

NoExc == "none"
Ok(v) == [exc |-> NoExc, val |-> v]
Raise(e, v) == [exc |-> e, val |-> v]

\* the exception of the first statement of a sequence that raises
FirstExc(excs) ==
  IF \A i \in DOMAIN excs : excs[i] = NoExc THEN NoExc
  ELSE excs[CHOOSE i \in DOMAIN excs :
              excs[i] # NoExc /\ \A j \in 1..(i - 1) : excs[j] = NoExc]

ZeroDivision == [k |-> "ZeroDivisionError", n |-> 0, d |-> 1]

\* Python's division of scalars, which raises on a zero divisor
PyTrueDiv(n, d) ==
  IF d # 0 THEN Num(n, d) ELSE ZeroDivision

\* numpy true division of an integer by an integer: x / 0 is nan or inf,
\* never an exception
NpDiv(n, d) ==
  IF d # 0 THEN Num(n, d)
  ELSE IF n = 0 THEN NaN ELSE Inf

FloatAdd(a, b) ==
  IF a.k = "ZeroDivisionError" \/ b.k = "ZeroDivisionError" THEN ZeroDivision
  ELSE IF a.k = "nan" \/ b.k = "nan" THEN NaN
  ELSE IF a.k = "inf" \/ b.k = "inf" THEN Inf
  ELSE Num(a.n * b.d + b.n * a.d, a.d * b.d)

FloatIs(a, i) == a.k = "num" /\ a.n = i * a.d

\* int(x) of a float
PyInt(f) ==
  IF f.k = "num" THEN Ok(f.n \div f.d)
  ELSE IF f.k = "nan" THEN Raise("ValueError", 0)
  ELSE Raise("OverflowError", 0)

\* f"{int(x):,}": the format of the first KPI applied to a float
PyFormatAsInt(f) ==
  IF PyInt(f).exc = NoExc THEN Ok(Num(PyInt(f).val, 1))
  ELSE Raise(PyInt(f).exc, NaN)

\* f"{x:.2f}": formats any float, NaN included ("nan"); the digits are not
\* modelled, the displayed value stands for its text
PyFormatFloat(f) == Ok(f)

\* ---------------------------------------------------------------- Series
RECURSIVE SumOver(_, _)
SumOver(rows, col) ==
  IF rows = {} THEN 0
  ELSE LET r == CHOOSE x \in rows : TRUE
       IN  r[col] + SumOver(rows \ {r}, col)

SeriesSum(rows, col) == SumOver(rows, col)

SeriesMean(rows, col) ==
  IF rows = {} THEN NaN ELSE Num(SumOver(rows, col), Cardinality(rows))

SeriesMin(rows, col) ==
  IF rows = {} THEN NaN
  ELSE Num(CHOOSE m \in {r[col] : r \in rows} :
             \A r \in rows : m <= r[col], 1)

SeriesMax(rows, col) ==
  IF rows = {} THEN NaN
  ELSE Num(CHOOSE m \in {r[col] : r \in rows} :
             \A r \in rows : m >= r[col], 1)

Unique(rows, col) == {r[col] : r \in rows}

\* ---------------------------------------------------------------- groupby
\* The keys of DataFrame.groupby(keycols): one per combination present
GroupKeys(rows, keycols) == {[c \in keycols |-> r[c]] : r \in rows}

Group(rows, g) == {r \in rows : \A c \in DOMAIN g : r[c] = g[c]}

\* groupby(keycols)[valcol].sum().reset_index()
GroupSum(rows, keycols, valcol) ==
  {[c \in keycols \cup {valcol} |->
      IF c \in keycols THEN g[c] ELSE SeriesSum(Group(rows, g), valcol)] :
   g \in GroupKeys(rows, keycols)}

\* groupby(keycols).agg({meancol: 'mean', sumcol: 'sum'}).reset_index()
GroupMeanSum(rows, keycols, meancol, sumcol) ==
  {[c \in keycols \cup {meancol, sumcol} |->
      IF c \in keycols THEN g[c]
      ELSE IF c = meancol THEN SeriesMean(Group(rows, g), meancol)
      ELSE SeriesSum(Group(rows, g), sumcol)] :
   g \in GroupKeys(rows, keycols)}

\* frame[name] = ..., for one row: the row with the column set to value
WithColumn(r, name, value) ==
  [c \in DOMAIN r \cup {name} |-> IF c = name THEN value ELSE r[c]]

\* the share of the whole column instead of the share of the group
PctOfColumn(rows, keycols, valcol) ==
  {WithColumn(r, "Percentatge",
              NpDiv(100 * r[valcol], SeriesSum(rows, valcol))) : r \in rows}

\* the exception a transform raised, if one did
TransformExc(rows) ==
  IF \E r \in rows : r.Percentatge.k = "ZeroDivisionError"
    THEN "ZeroDivisionError" ELSE NoExc

\* groupby(keycols)[valcol].transform(lambda x: 100 * x / x.sum())
PctOfGroup(rows, keycols, valcol) ==
  {WithColumn(r, "Percentatge",
              NpDiv(100 * r[valcol],
                    SeriesSum(Group(rows, [c \in keycols |-> r[c]]),
                              valcol))) : r \in rows}

\* ------------------------------------------------------------ categorizer
Uppers == <<"A", "B", "C", "D", "E", "F", "G", "H", "I", "J", "K", "L", "M",
            "N", "O", "P", "Q", "R", "S", "T", "U", "V", "W", "X", "Y", "Z",
            "É">>
Lowers == <<"a", "b", "c", "d", "e", "f", "g", "h", "i", "j", "k", "l", "m",
            "n", "o", "p", "q", "r", "s", "t", "u", "v", "w", "x", "y", "z",
            "é">>

\* str.lower(), character by character
LowerChar(ch) ==
  IF \E i \in DOMAIN Uppers : Uppers[i] = ch
    THEN Lowers[CHOOSE i \in DOMAIN Uppers : Uppers[i] = ch]
    ELSE ch

StrLower(d) == [i \in DOMAIN d |-> LowerChar(d[i])]

\* kw in d
In(kw, d) ==
  \E i \in 0..(Len(d) - Len(kw)) :
    \A j \in 1..Len(kw) : d[i + j] = kw[j]

kw_vol == <<"v", "o", "l">>
kw_detournement ==
  <<"d", "é", "t", "o", "u", "r", "n", "e", "m", "e", "n", "t">>
kw_dommages == <<"d", "o", "m", "m", "a", "g", "e", "s">>
kw_violence == <<"v", "i", "o", "l", "e", "n", "c", "e">>
kw_lesions == <<"l", "é", "s", "i", "o", "n", "s">>
kw_meurtre == <<"m", "e", "u", "r", "t", "r", "e">>
kw_fraude == <<"f", "r", "a", "u", "d", "e">>
kw_escroquerie ==
  <<"e", "s", "c", "r", "o", "q", "u", "e", "r", "i", "e">>
kw_corruption == <<"c", "o", "r", "r", "u", "p", "t", "i", "o", "n">>
kw_sexuel == <<"s", "e", "x", "u", "e", "l">>
kw_inceste == <<"i", "n", "c", "e", "s", "t", "e">>
kw_prostitution ==
  <<"p", "r", "o", "s", "t", "i", "t", "u", "t", "i", "o", "n">>

Robatoris == "Robatoris / Détournements / Danys"
Violencia == "Violència / Homicidi"
Frau == "Frau / Corrupció"
Sexuals == "Infraccions sexuals"
Altres == "Altres"

\* the definition at lines 179-190
categoritza_delicte(d) ==
  LET d_lower == StrLower(d)
  IN  IF In(kw_vol, d_lower) \/ In(kw_detournement, d_lower)
         \/ In(kw_dommages, d_lower)
        THEN Robatoris
      ELSE IF In(kw_violence, d_lower) \/ In(kw_lesions, d_lower)
              \/ In(kw_meurtre, d_lower)
        THEN Violencia
      ELSE IF In(kw_fraude, d_lower) \/ In(kw_escroquerie, d_lower)
              \/ In(kw_corruption, d_lower)
        THEN Frau
      ELSE IF In(kw_sexuel, d_lower) \/ In(kw_inceste, d_lower)
              \/ In(kw_prostitution, d_lower)
        THEN Sexuals
      ELSE Altres

\* the second definition with its first two tests in the other order
categoritza_delicte_swapped(d) ==
  LET d_lower == StrLower(d)
  IN  IF In(kw_violence, d_lower) \/ In(kw_lesions, d_lower)
         \/ In(kw_meurtre, d_lower)
        THEN Violencia
      ELSE IF In(kw_vol, d_lower) \/ In(kw_detournement, d_lower)
              \/ In(kw_dommages, d_lower)
        THEN Robatoris
      ELSE IF In(kw_fraude, d_lower) \/ In(kw_escroquerie, d_lower)
              \/ In(kw_corruption, d_lower)
        THEN Frau
      ELSE IF In(kw_sexuel, d_lower) \/ In(kw_inceste, d_lower)
              \/ In(kw_prostitution, d_lower)
        THEN Sexuals
      ELSE Altres

\* the second definition, at lines 239-250, which replaces the first
categoritza_delicte_2(d) ==
  LET d_lower == StrLower(d)
  IN  IF In(kw_vol, d_lower) \/ In(kw_detournement, d_lower)
         \/ In(kw_dommages, d_lower)
        THEN Robatoris
      ELSE IF In(kw_violence, d_lower) \/ In(kw_lesions, d_lower)
              \/ In(kw_meurtre, d_lower)
        THEN Violencia
      ELSE IF In(kw_fraude, d_lower) \/ In(kw_escroquerie, d_lower)
              \/ In(kw_corruption, d_lower)
        THEN Frau
      ELSE IF In(kw_sexuel, d_lower) \/ In(kw_inceste, d_lower)
              \/ In(kw_prostitution, d_lower)
        THEN Sexuals
      ELSE Altres

\* ----------------------------------------------------------------- state
ObjIds == {"none", "loaded", "l54", "l56", "l57"}
NoFrame == [cols |-> {}, rows |-> {}]
NoEntry == [hit |-> FALSE, value |-> {}]
NoSelection ==
  [made |-> FALSE, year |-> <<0, 0>>, canton |-> Tots, offence |-> {}]

VARIABLES
  pc,              \* the statement the script execution is at
  err,             \* the exception that stopped the execution, or NoExc
  file_csv,        \* rows of df_final_compressed.csv.gz on disk
  file_geo,        \* feature names of switzerland.geojson on disk
  cache_data,      \* st.cache_data entry of load_data
  cache_geojson,   \* st.cache_data entry of load_geojson
  reads_csv,       \* reads of the dataset file since the cache was last empty
  reads_geo,       \* reads of the GeoJSON file since the cache was last empty
  frames,          \* the DataFrame objects of this execution, by identity
  df,              \* the object the name df is bound to
  geojson,         \* the value the name geojson is bound to
  df_filtered,     \* the object the name df_filtered is bound to
  selected,        \* selected_year, selected_canton, selected_offence
  kpi,             \* total_crimes, avg_crime_rate, avg_resolution
  map_data,        \* map_data (line 78)
  map_shown,       \* the table passed to px.choropleth (line 85)
  scatter_data,    \* scatter_data (line 129)
  stacked_data,    \* stacked_data with its Categorie column (line 199)
  stacked_data_cat,\* stacked_data_cat with Percentatge (line 207)
  stacked_plot,    \* stacked_data_cat as passed to px.bar (line 210)
  temporal_data,   \* temporal_data (line 255)
  resolution_pct,  \* resolution_pct with Percentatge (line 276)
  cantons_cat,     \* cantons_cat (line 297)
  corr_groups,     \* the per-canton aggregate the correlation is taken of
  bubble_data      \* bubble_data (line 351)

env == <<file_csv, file_geo, cache_data, cache_geojson, reads_csv, reads_geo>>
objs == <<frames, df, geojson, df_filtered>>
sections == <<kpi, map_data, map_shown, scatter_data, stacked_data,
              stacked_data_cat, stacked_plot, temporal_data, resolution_pct,
              cantons_cat, corr_groups, bubble_data>>
vars == <<pc, err, env, objs, selected, sections>>

NoKpi == [total_crimes |-> 0, avg_crime_rate |-> NaN, avg_resolution |-> NaN,
          shown |-> FALSE]
NoFrames == [o \in ObjIds |-> NoFrame]

\* the script globals before the first statement of an execution
FreshGlobals ==
  /\ frames = NoFrames
  /\ df = "none"
  /\ geojson = {}
  /\ df_filtered = "none"
  /\ selected = NoSelection
  /\ kpi = NoKpi
  /\ map_data = {}
  /\ map_shown = {}
  /\ scatter_data = {}
  /\ stacked_data = {}
  /\ stacked_data_cat = {}
  /\ stacked_plot = {}
  /\ temporal_data = {}
  /\ resolution_pct = {}
  /\ cantons_cat = {}
  /\ corr_groups = {}
  /\ bubble_data = {}

ResetGlobals ==
  /\ frames' = NoFrames
  /\ df' = "none"
  /\ geojson' = {}
  /\ df_filtered' = "none"
  /\ selected' = NoSelection
  /\ kpi' = NoKpi
  /\ map_data' = {}
  /\ map_shown' = {}
  /\ scatter_data' = {}
  /\ stacked_data' = {}
  /\ stacked_data_cat' = {}
  /\ stacked_plot' = {}
  /\ temporal_data' = {}
  /\ resolution_pct' = {}
  /\ cantons_cat' = {}
  /\ corr_groups' = {}
  /\ bubble_data' = {}

\* a new process, with the dataset file holding one of tables
InitWith(tables) ==
  /\ pc = "load_data"
  /\ err = NoExc
  /\ file_csv \in tables
  /\ file_geo \in GeoFiles
  /\ cache_data = NoEntry
  /\ cache_geojson = NoEntry
  /\ reads_csv = 0
  /\ reads_geo = 0
  /\ FreshGlobals

Init == InitWith(Tables)

\* --------------------------------------------------------------- loaders
\* load_data without its decorator: every call runs the body
load_data_undecorated ==
  /\ pc = "load_data"
  /\ reads_csv < MaxReads
  /\ frames' = [frames EXCEPT !["loaded"] =
                  [cols |-> SourceCols, rows |-> file_csv]]
  /\ cache_data' = [hit |-> TRUE, value |-> file_csv]
  /\ reads_csv' = reads_csv + 1
  /\ df' = "loaded"
  /\ pc' = "load_geojson"
  /\ UNCHANGED <<err, file_csv, file_geo, cache_geojson, reads_geo, geojson,
                 df_filtered, selected, sections>>

\* @st.cache_data on a function without arguments: one entry; a call with
\* the entry present returns a copy of the stored value without running
\* the body, otherwise runs the body (which reads the file) and stores it.
load_data ==
  /\ pc = "load_data"
  /\ IF cache_data.hit
       THEN /\ frames' = [frames EXCEPT !["loaded"] =
                            [cols |-> SourceCols, rows |-> cache_data.value]]
            /\ UNCHANGED <<cache_data, reads_csv>>
       ELSE /\ reads_csv < MaxReads
            /\ frames' = [frames EXCEPT !["loaded"] =
                            [cols |-> SourceCols, rows |-> file_csv]]
            /\ cache_data' = [hit |-> TRUE, value |-> file_csv]
            /\ reads_csv' = reads_csv + 1
  /\ df' = "loaded"
  /\ pc' = "load_geojson"
  /\ UNCHANGED <<err, file_csv, file_geo, cache_geojson, reads_geo, geojson,
                 df_filtered, selected, sections>>

load_geojson ==
  /\ pc = "load_geojson"
  /\ IF cache_geojson.hit
       THEN /\ geojson' = cache_geojson.value
            /\ UNCHANGED <<cache_geojson, reads_geo>>
       ELSE /\ reads_geo < MaxReads
            /\ geojson' = file_geo
            /\ cache_geojson' = [hit |-> TRUE, value |-> file_geo]
            /\ reads_geo' = reads_geo + 1
  /\ pc' = "sidebar"
  /\ UNCHANGED <<err, file_csv, file_geo, cache_data, reads_csv, frames, df,
                 df_filtered, selected, sections>>

\* ---------------------------------------------------------------- sidebar
\* The slider bounds are int(df['Any'].min()) and int(df['Any'].max()); the
\* widgets return a year range inside them, "Tots" or a canton of the table,
\* and a subset of the offence types of the table.
Sidebar ==
  /\ pc = "sidebar"
  /\ LET rows == frames[df].rows
         lo == PyInt(SeriesMin(rows, "Any"))
         hi == PyInt(SeriesMax(rows, "Any"))
     IN  IF lo.exc # NoExc \/ hi.exc # NoExc
           THEN /\ err' = FirstExc(<<lo.exc, hi.exc>>)
                /\ pc' = "stopped"
                /\ UNCHANGED selected
           ELSE /\ \E a \in lo.val..hi.val, b \in lo.val..hi.val,
                      c \in {Tots} \cup Unique(rows, "Canto_norm"),
                      S \in SUBSET Unique(rows, "Tipus_de_Delicte") :
                        /\ a <= b
                        /\ selected' = [made |-> TRUE, year |-> <<a, b>>,
                                        canton |-> c, offence |-> S]
                /\ pc' = "filter"
                /\ UNCHANGED err
  /\ UNCHANGED <<env, objs, sections>>

\* ----------------------------------------------------------------- filter
\* a range that leaves its upper bound out
BetweenHalfOpen(v, a, b) == a <= v /\ v < b

\* Series.between(a, b) is inclusive on both sides
Between(v, a, b) == a <= v /\ v <= b

\* an indexing that returned its operand instead of a new object
GetItemMaskSameObject(src, new) == src

\* df[mask]: boolean indexing builds a new DataFrame object; new is the
\* identity of the result.  The objects no name is bound to any more after
\* line 57 are freed.
GetItemMask(src, new) == new

Filter ==
  /\ pc = "filter"
  /\ LET o54 == GetItemMask(df, "l54")
         f54 == [frames EXCEPT ![o54] =
                   [cols |-> frames[df].cols,
                    rows |-> {r \in frames[df].rows :
                                Between(r.Any, selected.year[1],
                                        selected.year[2])}]]
         o56 == IF selected.canton # Tots THEN GetItemMask(o54, "l56") ELSE o54
         f56 == IF selected.canton # Tots
                  THEN [f54 EXCEPT ![o56] =
                          [cols |-> f54[o54].cols,
                           rows |-> {r \in f54[o54].rows :
                                       r.Canto_norm = selected.canton}]]
                  ELSE f54
         o57 == GetItemMask(o56, "l57")
         f57 == [f56 EXCEPT ![o57] =
                   [cols |-> f56[o56].cols,
                    rows |-> {r \in f56[o56].rows :
                                r.Tipus_de_Delicte \in selected.offence}]]
     IN  /\ frames' = [o \in ObjIds |->
                         IF o \in {df, o57} THEN f57[o] ELSE NoFrame]
         /\ df_filtered' = o57
  /\ pc' = "kpi"
  /\ UNCHANGED <<err, env, df, geojson, selected, sections>>

\* -------------------------------------------------------------- section 1
Kpi ==
  /\ pc = "kpi"
  /\ LET rows == frames[df_filtered].rows
         total_crimes == SeriesSum(rows, "Nombre_de_Delictes")
         avg_crime_rate == SeriesMean(rows, "Taxa_Criminalitat_per_1000")
         avg_resolution == SeriesMean(rows, "Percentatge_Casos_Resolts")
         t1 == PyInt(Num(total_crimes, 1))
         t2 == PyFormatFloat(avg_crime_rate)
         t3 == PyFormatFloat(avg_resolution)
         exc == FirstExc(<<t1.exc, t2.exc, t3.exc>>)
     IN  IF exc # NoExc
           THEN /\ err' = exc
                /\ pc' = "stopped"
                /\ UNCHANGED kpi
           ELSE /\ kpi' = [total_crimes |-> t1.val, avg_crime_rate |-> t2.val,
                           avg_resolution |-> t3.val, shown |-> TRUE]
                /\ pc' = "map"
                /\ UNCHANGED err
  /\ UNCHANGED <<env, objs, selected, map_data, map_shown, scatter_data,
                 stacked_data, stacked_data_cat, stacked_plot, temporal_data,
                 resolution_pct, cantons_cat, corr_groups, bubble_data>>

\* -------------------------------------------------------- sections 2 to 4
\* The map (lines 77-97), the line chart of map_data (103-112) and the
\* socio-economic scatter (121-159).  The 'first' reductions of
\* PIB_per_Capita, Percentatge_Estrangers and Poblacio_Total are columns
\* outside the modelled table.
\* selected_year[0], the lower end of the slider
EarliestYear(selected_year) == selected_year[1]

\* selected_year[1], the upper end of the slider (tuples count from 1 here)
LatestYear(selected_year) == selected_year[2]

MapSections ==
  /\ pc = "map"
  /\ LET rows == frames[df_filtered].rows
         md == GroupMeanSum(rows, {"Canto_norm", "Any"},
                            "Taxa_Criminalitat_per_1000", "Nombre_de_Delictes")
         df_scatter == {r \in rows : r.Nivell_de_Resolucio = TotalDeCasos}
     IN  /\ map_data' = md
         /\ map_shown' = {m \in md : m.Any = LatestYear(selected.year)}
         /\ scatter_data' =
              {[c \in {"Canto_norm", "Any", "Taxa_Criminalitat_per_1000"} |->
                  IF c = "Taxa_Criminalitat_per_1000"
                    THEN SeriesMean(Group(df_scatter, g), c) ELSE g[c]] :
               g \in GroupKeys(df_scatter, {"Canto_norm", "Any"})}
  /\ pc' = "stacked"
  /\ UNCHANGED <<err, env, objs, selected, kpi, stacked_data,
                 stacked_data_cat, stacked_plot, temporal_data, resolution_pct,
                 cantons_cat, corr_groups, bubble_data>>

\* ------------------------------------------ section 4, resolution of cases
StackedSection ==
  /\ pc = "stacked"
  /\ LET rows == frames[df_filtered].rows
         sd == {WithColumn(r, "Categorie",
                           categoritza_delicte(r.Tipus_de_Delicte)) :
                r \in GroupSum(rows, {"Tipus_de_Delicte",
                                      "Nivell_de_Resolucio"},
                               "Nombre_de_Delictes")}
         sdc == GroupSum(sd, {"Categorie", "Nivell_de_Resolucio"},
                         "Nombre_de_Delictes")
         pct == PctOfGroup(sdc, {"Categorie"}, "Nombre_de_Delictes")
     IN  IF TransformExc(pct) # NoExc
           THEN /\ err' = TransformExc(pct)
                /\ pc' = "stopped"
                /\ UNCHANGED <<stacked_data, stacked_data_cat, stacked_plot>>
           ELSE /\ stacked_data' = sd
                /\ stacked_data_cat' = pct
                /\ stacked_plot' =
                     {r \in pct : r.Nivell_de_Resolucio # TotalDeCasos}
                /\ pc' = "temporal"
                /\ UNCHANGED err
  /\ UNCHANGED <<env, objs, selected, kpi, map_data, map_shown,
                 scatter_data, temporal_data, resolution_pct, cantons_cat,
                 corr_groups, bubble_data>>

\* -------------------------------------------------------------- section 5
\* df_filtered['Categorie'] = ... assigns the column in the object the name
\* df_filtered is bound to.
TemporalSection ==
  /\ pc = "temporal"
  /\ LET old == frames[df_filtered]
         new == [cols |-> old.cols \cup {"Categorie"},
                 rows |-> {WithColumn(r, "Categorie",
                             categoritza_delicte_2(r.Tipus_de_Delicte)) :
                           r \in old.rows}]
     IN  /\ frames' = [frames EXCEPT ![df_filtered] = new]
         /\ temporal_data' = GroupSum(new.rows, {"Any", "Categorie"},
                                      "Nombre_de_Delictes")
  /\ pc' = "resolution"
  /\ UNCHANGED <<err, env, df, geojson, df_filtered, selected, kpi, map_data,
                 map_shown, scatter_data, stacked_data, stacked_data_cat,
                 stacked_plot, resolution_pct, cantons_cat, corr_groups,
                 bubble_data>>

\* -------------------------------------------------------------- section 7
ResolutionSection ==
  /\ pc = "resolution"
  /\ LET resolution_data ==
           {r \in frames[df_filtered].rows :
              r.Nivell_de_Resolucio # TotalDeCasos}
         sums == GroupSum(resolution_data,
                          {"Any", "Categorie", "Nivell_de_Resolucio"},
                          "Nombre_de_Delictes")
         pct == PctOfGroup(sums, {"Any", "Categorie"}, "Nombre_de_Delictes")
         exc == IF "Categorie" \notin frames[df_filtered].cols
                  THEN "KeyError" ELSE TransformExc(pct)
     IN  IF exc # NoExc
           THEN /\ err' = exc
                /\ pc' = "stopped"
                /\ UNCHANGED resolution_pct
           ELSE /\ resolution_pct' = pct
                /\ pc' = "cantons"
                /\ UNCHANGED err
  /\ UNCHANGED <<env, objs, selected, kpi, map_data, map_shown, scatter_data,
                 stacked_data, stacked_data_cat, stacked_plot, temporal_data,
                 cantons_cat, corr_groups, bubble_data>>

\* ------------------------------------------------------- sections 8 to 10
\* cantons_cat (lines 296-307), the correlation (322-343) and bubble_data
\* (350-388).  Of the correlation only the per-canton aggregate is modelled;
\* DataFrame.corr() of it is a 4 x 4 matrix for any number of cantons (all
\* NaN below two), so the melt and the renaming to three columns do not
\* depend on the data.
LastSections ==
  /\ pc = "cantons"
  /\ LET rows == frames[df_filtered].rows
     IN  /\ cantons_cat' =
              GroupSum({r \in rows : r.Canto_norm # "Switzerland"},
                       {"Canto_norm", "Categorie"}, "Nombre_de_Delictes")
         /\ corr_groups' = GroupSum(rows, {"Canto_norm"},
                                    "Nombre_de_Delictes")
         /\ bubble_data' = GroupSum(rows, {"Any", "Categorie", "Canto_norm"},
                                    "Nombre_de_Delictes")
  /\ pc' = "done"
  /\ UNCHANGED <<err, env, objs, selected, kpi, map_data, map_shown,
                 scatter_data, stacked_data, stacked_data_cat, stacked_plot,
                 temporal_data, resolution_pct>>

\* A user interaction: the script is executed again from the top, in the
\* same process, with fresh script globals.
Rerun ==
  /\ pc \in {"done", "stopped"}
  /\ pc' = "load_data"
  /\ err' = NoExc
  /\ ResetGlobals
  /\ UNCHANGED env

Next ==
  \/ load_data
  \/ load_geojson
  \/ Sidebar
  \/ Filter
  \/ Kpi
  \/ MapSections
  \/ StackedSection
  \/ TemporalSection
  \/ ResolutionSection
  \/ LastSections
  \/ Rerun

Spec == Init /\ [][Next]_vars

\* ------------------------------------------------------------ environment
\* The backing files change on disk between two executions of the script.
FileChange ==
  /\ pc \in {"done", "stopped"}
  /\ \/ /\ file_csv' \in CacheTables \ {file_csv}
        /\ UNCHANGED file_geo
     \/ /\ file_geo' \in CacheGeoFiles \ {file_geo}
        /\ UNCHANGED file_csv
  /\ UNCHANGED <<pc, err, cache_data, cache_geojson, reads_csv, reads_geo,
                 objs, selected, sections>>

\* The explicit clearing of the st.cache_data caches ("Clear cache").
ClearCache ==
  /\ pc \in {"done", "stopped"}
  /\ cache_data.hit \/ cache_geojson.hit
  /\ cache_data' = NoEntry
  /\ cache_geojson' = NoEntry
  /\ reads_csv' = 0
  /\ reads_geo' = 0
  /\ UNCHANGED <<pc, err, file_csv, file_geo, objs, selected, sections>>

\* The process is restarted: its memory, the caches included, is gone.
Restart ==
  /\ pc \in {"done", "stopped"}
  /\ cache_data.hit \/ cache_geojson.hit
  /\ pc' = "load_data"
  /\ err' = NoExc
  /\ cache_data' = NoEntry
  /\ cache_geojson' = NoEntry
  /\ reads_csv' = 0
  /\ reads_geo' = 0
  /\ ResetGlobals
  /\ UNCHANGED <<file_csv, file_geo>>

InitCache == InitWith(CacheTables)

NextCache ==
  \/ Next
  \/ FileChange
  \/ ClearCache
  \/ Restart

SpecCache == InitCache /\ [][NextCache]_vars

\* ------------------------------------------- the categorizer on any label
Fragments ==
  {<<"v", "o", "l">>,
   <<"V", "O", "L">>,
   <<"V", "o">>,
   <<"l">>,
   <<"V", "i", "o", "l">>,
   <<"e", "n", "c", "e">>,
   <<"d", "o", "m", "m", "a", "g", "e", "s">>,
   <<"D", "É", "T", "O", "U", "R", "N", "E", "M", "E", "N", "T">>,
   <<"L", "é", "s", "i", "o", "n", "s">>,
   <<"m", "e", "u", "r", "t", "r", "e">>,
   <<"f", "r", "a", "u", "d", "e">>,
   <<"E", "s", "c", "r", "o", "q", "u", "e", "r", "i", "e">>,
   <<"c", "o", "r", "r", "u", "p", "t", "i", "o", "n">>,
   <<"s", "e", "x", "u", "e", "l">>,
   <<"I", "n", "c", "e", "s", "t", "e">>,
   <<"p", "r", "o", "s", "t", "i", "t", "u", "t", "i", "o", "n">>,
   <<" ">>}

\* the labels made of at most n fragments
RECURSIVE LabelsUpTo(_)
LabelsUpTo(n) ==
  IF n = 0 THEN {<<>>}
  ELSE LET L == LabelsUpTo(n - 1)
       IN  L \cup {p[1] \o p[2] : p \in L \X Fragments}

Labels == LabelsUpTo(MaxFrags)

\* a dataset of one row whose offence type is any label
InitCat ==
  InitWith({{r} : r \in RowsOf({<<"Zuric", 2022>>}, Labels, {Resolts}, {1})})

SpecCat == InitCat /\ [][Next]_vars

\* ================================================================ claims
AfterFilter ==
  {"kpi", "map", "stacked", "temporal", "resolution", "cantons", "done"}
AfterMap == {"stacked", "temporal", "resolution", "cantons", "done"}
AfterStacked == {"temporal", "resolution", "cantons", "done"}
AfterTemporal == {"resolution", "cantons", "done"}
AfterResolution == {"cantons", "done"}

\* a row without the columns the pipeline derived
SourceRow(r) == [c \in SourceCols |-> r[c]]

Filtered == frames[df_filtered].rows

RECURSIVE FloatSumOver(_, _)
FloatSumOver(rows, col) ==
  IF rows = {} THEN Num(0, 1)
  ELSE LET r == CHOOSE x \in rows : TRUE
       IN  FloatAdd(r[col], FloatSumOver(rows \ {r}, col))

GroupTotal(rows, g) == SeriesSum(Group(rows, g), "Nombre_de_Delictes")

\* C1: after the filter, df_filtered holds exactly the rows of the source
\* table whose year is in the selected range (both ends included), whose
\* canton is the selected one unless the selector is "Tots", and whose
\* offence type is selected.
FilteredViewExact ==
  pc \in AfterFilter =>
    {SourceRow(r) : r \in Filtered} =
      {r \in frames[df].rows :
         /\ selected.year[1] <= r.Any
         /\ r.Any <= selected.year[2]
         /\ selected.canton # Tots => r.Canto_norm = selected.canton
         /\ r.Tipus_de_Delicte \in selected.offence}

\* a single-year, single-canton selection that keeps a row and drops one
FilteredViewWitness ==
  /\ pc = "kpi"
  /\ selected.year[1] = selected.year[2]
  /\ selected.canton # Tots
  /\ Filtered # {}
  /\ Cardinality(Filtered) < Cardinality(frames[df].rows)

\* the cases of a view: per (canton, year, offence type), as many as its
\* "Total de casos" row counts, or as its itemized rows count together when
\* that is more
CasesOf(rows) ==
  LET keys == {"Canto_norm", "Any", "Tipus_de_Delicte"}
      total(g) == SeriesSum({r \in Group(rows, g) :
                               r.Nivell_de_Resolucio = TotalDeCasos},
                            "Nombre_de_Delictes")
      itemized(g) == SeriesSum({r \in Group(rows, g) :
                                  r.Nivell_de_Resolucio # TotalDeCasos},
                               "Nombre_de_Delictes")
      perKey ==
        {[key |-> g,
          Nombre_de_Delictes |->
            IF total(g) >= itemized(g) THEN total(g) ELSE itemized(g)] :
         g \in GroupKeys(rows, keys)}
  IN  SeriesSum(perKey, "Nombre_de_Delictes")

\* C2: the KPI total is the sum of the crime counts of the filtered rows and
\* counts no case twice, once in its "Total de casos" row and once in its
\* itemized rows.
KpiCountsEachCaseOnce ==
  kpi.shown =>
    /\ kpi.total_crimes = SeriesSum(Filtered, "Nombre_de_Delictes")
    /\ kpi.total_crimes = CasesOf(Filtered)

KeywordGroups ==
  <<{kw_vol, kw_detournement, kw_dommages},
    {kw_violence, kw_lesions, kw_meurtre},
    {kw_fraude, kw_escroquerie, kw_corruption},
    {kw_sexuel, kw_inceste, kw_prostitution}>>
GroupNames == <<Robatoris, Violencia, Frau, Sexuals>>
Categories == {Robatoris, Violencia, Frau, Sexuals, Altres}

\* the keyword groups with a keyword in the lowercased label
GroupsMatching(d) ==
  LET d_lower == StrLower(d)
  IN  {i \in DOMAIN KeywordGroups :
         \E kw \in KeywordGroups[i] : In(kw, d_lower)}

EarliestGroup(d) ==
  LET hit == GroupsMatching(d)
  IN  IF hit = {} THEN Altres
      ELSE GroupNames[CHOOSE i \in hit : \A j \in hit : i <= j]

\* C3: every label gets one of the five categories, the one of the earliest
\* keyword group with a keyword in the lowercased label ("Altres" when there
\* is none), by the first definition (stacked_data) and by the second
\* (df_filtered) alike.
CategorizerFirstMatch ==
  /\ pc \in AfterStacked =>
       \A r \in stacked_data :
         /\ r.Categorie \in Categories
         /\ r.Categorie = EarliestGroup(r.Tipus_de_Delicte)
  /\ pc \in AfterTemporal =>
       /\ \A r \in Filtered :
            /\ r.Categorie \in Categories
            /\ r.Categorie = EarliestGroup(r.Tipus_de_Delicte)
       /\ \A r1 \in stacked_data, r2 \in Filtered :
            r1.Tipus_de_Delicte = r2.Tipus_de_Delicte =>
              r1.Categorie = r2.Categorie

\* a label with keywords of the first two groups, categorized by both
\* definitions
CategorizerWitness ==
  /\ pc = "done"
  /\ \E r1 \in stacked_data, r2 \in Filtered :
       /\ r1.Tipus_de_Delicte = r2.Tipus_de_Delicte
       /\ {1, 2} \subseteq GroupsMatching(r2.Tipus_de_Delicte)
       /\ r2.Categorie = Robatoris

PctSumIs100(rows, keycols) ==
  \A g \in GroupKeys(rows, keycols) :
    GroupTotal(rows, g) # 0 =>
      FloatIs(FloatSumOver(Group(rows, g), "Percentatge"), 100)

\* C4: in stacked_data_cat as line 207 leaves it and in resolution_pct as
\* line 276 leaves it, the percentages of the rows of every group with a
\* nonzero total sum to 100.
GroupPercentagesSumTo100 ==
  /\ pc \in AfterStacked => PctSumIs100(stacked_data_cat, {"Categorie"})
  /\ pc \in AfterResolution =>
       PctSumIs100(resolution_pct, {"Any", "Categorie"})

\* both computations met a group of two rows with nonzero counts
GroupPercentagesWitness ==
  /\ pc = "done"
  /\ \E r1, r2 \in stacked_data_cat :
       /\ r1 # r2
       /\ r1.Categorie = r2.Categorie
       /\ r1.Nombre_de_Delictes # 0
       /\ r2.Nombre_de_Delictes # 0
  /\ \E r1, r2 \in resolution_pct :
       /\ r1 # r2
       /\ r1.Categorie = r2.Categorie
       /\ r1.Any = r2.Any
       /\ r1.Nombre_de_Delictes # 0
       /\ r2.Nombre_de_Delictes # 0

ZeroGroupsMarked(rows, keycols) ==
  \A r \in rows :
    GroupTotal(rows, [c \in keycols |-> r[c]]) = 0 =>
      r.Percentatge = NaN \/ FloatIs(r.Percentatge, 0)

\* C5: a group whose total is zero raises nothing: each of its rows gets NaN
\* (or zero) as its percentage and the execution goes on.
ZeroTotalGroupDoesNotRaise ==
  /\ err # "ZeroDivisionError"
  /\ pc \in AfterStacked => ZeroGroupsMarked(stacked_data_cat, {"Categorie"})
  /\ pc \in AfterResolution =>
       ZeroGroupsMarked(resolution_pct, {"Any", "Categorie"})

\* an execution that met a zero-total group in both computations and ended
ZeroTotalGroupWitness ==
  /\ pc = "done"
  /\ err = NoExc
  /\ \E r \in stacked_data_cat : r.Percentatge = NaN
  /\ \E r \in resolution_pct : r.Percentatge = NaN

\* C6: with no offence type selected the filtered view is empty, the KPIs
\* are 0, NaN and NaN, and no section raises.
EmptySelectionIsSafe ==
  selected.made /\ selected.offence = {} =>
    /\ pc # "stopped"
    /\ err = NoExc
    /\ pc \in AfterFilter => Filtered = {}
    /\ pc \in AfterFilter \ {"kpi"} =>
         /\ kpi.shown
         /\ kpi.total_crimes = 0
         /\ kpi.avg_crime_rate = NaN
         /\ kpi.avg_resolution = NaN

\* an execution on a table with rows that ended with nothing selected
EmptySelectionWitness ==
  /\ pc = "done"
  /\ selected.made
  /\ selected.offence = {}
  /\ frames[df].rows # {}
  /\ kpi.shown

\* C7, as a property of every step: a call of a loader with its entry
\* present reads nothing and returns the stored value; a call without it
\* reads the file once and stores it; an entry changes only by being
\* emptied between executions, and a change of a file leaves it alone.
LoaderStep ==
  /\ (pc = "load_data" /\ pc' = "load_geojson") =>
       IF cache_data.hit
         THEN /\ reads_csv' = reads_csv
              /\ cache_data' = cache_data
              /\ frames'[df'].rows = cache_data.value
         ELSE /\ reads_csv' = 1
              /\ cache_data' = [hit |-> TRUE, value |-> file_csv]
              /\ frames'[df'].rows = file_csv
  /\ (pc = "load_geojson" /\ pc' = "sidebar") =>
       IF cache_geojson.hit
         THEN /\ reads_geo' = reads_geo
              /\ cache_geojson' = cache_geojson
              /\ geojson' = cache_geojson.value
         ELSE /\ reads_geo' = 1
              /\ cache_geojson' = [hit |-> TRUE, value |-> file_geo]
              /\ geojson' = file_geo
  /\ (cache_data.hit /\ cache_data' # cache_data) =>
       /\ cache_data' = NoEntry
       /\ pc \in {"done", "stopped"}
       /\ file_csv' = file_csv
  /\ (cache_geojson.hit /\ cache_geojson' # cache_geojson) =>
       /\ cache_geojson' = NoEntry
       /\ pc \in {"done", "stopped"}
       /\ file_geo' = file_geo

FilesReadOncePerCache == [][LoaderStep]_vars

\* a later execution loaded the table after the file had changed and got
\* the stored one, with one read in all
StaleLoadWitness ==
  /\ pc = "load_geojson"
  /\ cache_data.hit
  /\ cache_data.value # file_csv
  /\ frames[df].rows = cache_data.value
  /\ reads_csv = 1
  /\ cache_geojson.hit
  /\ cache_geojson.value # file_geo

\* C8: the table loaded keeps its rows, its columns (no Categorie) and its
\* values through the filter, the assignment of line 253 and every section.
SourceTableUnchanged ==
  /\ df # "none" =>
       frames[df] = [cols |-> SourceCols, rows |-> file_csv]
  /\ cache_data.hit => cache_data.value = file_csv

\* an execution whose filter kept every row and that assigned Categorie
SourceTableWitness ==
  /\ pc = "done"
  /\ Filtered # {}
  /\ "Categorie" \in frames[df_filtered].cols
  /\ {SourceRow(r) : r \in Filtered} = frames[df].rows

\* C9: the table given to the choropleth has one row per canton at most,
\* all of the upper year of the selected range, for exactly the cantons with
\* a row of that year in the filtered view; with a canton selected it holds
\* no other canton.
MapTableOfLatestYear ==
  pc \in AfterMap =>
    /\ \A m1, m2 \in map_shown :
         m1.Canto_norm = m2.Canto_norm => m1 = m2
    /\ \A m \in map_shown : m.Any = selected.year[2]
    /\ {m.Canto_norm : m \in map_shown} =
         {r.Canto_norm : r \in {x \in Filtered : x.Any = selected.year[2]}}
    /\ selected.canton # Tots =>
         {m.Canto_norm : m \in map_shown} \subseteq {selected.canton}

\* a canton selected over a range of two years, with rows of both years
MapTableWitness ==
  /\ pc = "stacked"
  /\ selected.canton # Tots
  /\ selected.year[1] < selected.year[2]
  /\ Cardinality(map_shown) = 1
  /\ Cardinality(map_data) = 2

\* C10: for every category with a nonzero count among the rows plotted, the
\* percentages of the rows plotted sum to 100.
PlottedPercentagesSumTo100 ==
  pc \in AfterStacked => PctSumIs100(stacked_plot, {"Categorie"})
====
